---- MODULE Spec2Model ----
(***************************************************************************)
(* Model of the MVT attribute lister (hfu/mvtal): the attribute aggregator *)
(* of docs/mvt-parser.mjs and the export formatter of docs/exporter.mjs.   *)
(*                                                                         *)
(* A JavaScript string is modelled as a sequence of one-character strings, *)
(* so that String(value), join, escaping and parsing act on characters.    *)
(***************************************************************************)
EXTENDS Integers, Sequences, FiniteSets

VARIABLES
  tile,         \* the decoded tile handed to analyzeTile
  pc,           \* "ready", "analyzed" or "failed" ("off" in the application)
  analysis,     \* the object analyzeTile returned
  csvLayer,     \* the layer generateCSV was last called for, 0 for none
  csv,          \* the text generateCSV returned
  md,           \* the last generateMarkdown call: [layer, limit, showAll, text]
  calls,        \* the handleFetch invocations that went on to fetch
  currentData,  \* the application's currentData
  rendered,     \* what renderResults last put into resultsDiv
  btnDisabled,  \* fetchBtn.disabled
  status,       \* statusDiv: [cls, text, hidden]
  timers,       \* number of pending setTimeout(hideStatus) timers
  sampleCountInput,  \* sampleCountInput.value
  showAllValues,     \* showAllValuesCheckbox.checked
  renderedOptions    \* the sampleLimit and showAll of the last renderResults

pipeVars == <<tile, pc, analysis, csvLayer, csv, md>>

appVars ==
  <<calls, currentData, rendered, btnDisabled, status, timers,
    sampleCountInput, showAllValues, renderedOptions>>

vars == <<tile, pc, analysis, csvLayer, csv, md,
          calls, currentData, rendered, btnDisabled, status, timers>>

(***************************************************************************)
(* Bounds of the model.                                                    *)
(***************************************************************************)
MaxFeatures == 3
MaxPairs == 3
MaxLayers == 2
MaxHistogram == 12
MaxSampleLimit == 3
MaxCalls == 2

(***************************************************************************)
(* Generic helpers on sequences.                                           *)
(***************************************************************************)
Range(seq) == {seq[i] : i \in 1..Len(seq)}

RECURSIVE Concat(_)
Concat(seqs) ==
  IF seqs = <<>> THEN <<>> ELSE Head(seqs) \o Concat(Tail(seqs))

\* Position of the first occurrence of x in seq, 0 when absent.
RECURSIVE IndexFrom(_, _, _)
IndexFrom(seq, x, i) ==
  IF i > Len(seq) THEN 0
  ELSE IF seq[i] = x THEN i ELSE IndexFrom(seq, x, i + 1)

IndexOf(seq, x) == IndexFrom(seq, x, 1)

\* The distinct elements of seq, each at the place of its first occurrence.
RECURSIVE Distinct(_)
Distinct(seq) ==
  IF seq = <<>> THEN <<>>
  ELSE LET init == Distinct(SubSeq(seq, 1, Len(seq) - 1))
           last == seq[Len(seq)]
       IN IF last \in Range(init) THEN init ELSE Append(init, last)

(***************************************************************************)
(* config.mjs: VALUE_TYPES and CONFIG.                                     *)
(***************************************************************************)
VALUE_TYPES_NULL == <<"n", "u", "l", "l">>
VALUE_TYPES_BOOLEAN == <<"b", "o", "o", "l", "e", "a", "n">>
VALUE_TYPES_NUMBER == <<"n", "u", "m", "b", "e", "r">>
VALUE_TYPES_STRING == <<"s", "t", "r", "i", "n", "g">>
VALUE_TYPES_UNKNOWN == <<"u", "n", "k", "n", "o", "w", "n">>

MAX_SAMPLE_VALUES_CSV == 10

(***************************************************************************)
(* JavaScript values a decoded feature property can hold.  The field t is  *)
(* the run-time type of the value; b, n and s carry a boolean, a number    *)
(* and a string.                                                           *)
(***************************************************************************)
JsNull == [t |-> "null", b |-> FALSE, n |-> 0, s |-> <<>>]
JsUndefined == [t |-> "undefined", b |-> FALSE, n |-> 0, s |-> <<>>]
JsBool(x) == [t |-> "boolean", b |-> x, n |-> 0, s |-> <<>>]
JsNum(x) == [t |-> "number", b |-> FALSE, n |-> x, s |-> <<>>]
JsStr(x) == [t |-> "string", b |-> FALSE, n |-> 0, s |-> x]

\* mvt-parser.mjs getValueType
getValueType(value) ==
  IF value.t = "null" \/ value.t = "undefined" THEN VALUE_TYPES_NULL
  ELSE IF value.t = "boolean" THEN VALUE_TYPES_BOOLEAN
  ELSE IF value.t = "number" THEN VALUE_TYPES_NUMBER
  ELSE IF value.t = "string" THEN VALUE_TYPES_STRING
  ELSE VALUE_TYPES_UNKNOWN

Digits == <<"0", "1", "2", "3", "4", "5", "6", "7", "8", "9">>

\* Decimal text of a natural number.
RECURSIVE DecimalText(_)
DecimalText(n) ==
  IF n < 10 THEN <<Digits[n + 1]>>
  ELSE Append(DecimalText(n \div 10), Digits[(n % 10) + 1])

\* Number::toString for an integer.
NumberToString(n) ==
  IF n < 0 THEN <<"-">> \o DecimalText(0 - n) ELSE DecimalText(n)

\* String(value) of JavaScript.
StringOf(value) ==
  IF value.t = "null" THEN <<"n", "u", "l", "l">>
  ELSE IF value.t = "undefined"
    THEN <<"u", "n", "d", "e", "f", "i", "n", "e", "d">>
  ELSE IF value.t = "boolean"
    THEN (IF value.b THEN <<"t", "r", "u", "e">>
                     ELSE <<"f", "a", "l", "s", "e">>)
  ELSE IF value.t = "number" THEN NumberToString(value.n)
  ELSE value.s

(***************************************************************************)
(* Property order of an ordinary JavaScript object (OrdinaryOwnPropertyKeys)*)
(* : the keys that are array indices in ascending numeric order, then the  *)
(* other string keys in insertion order.                                   *)
(***************************************************************************)
MaxArrayIndexText == <<"4", "2", "9", "4", "9", "6", "7", "2", "9", "4">>

DigitValue(c) == IndexOf(Digits, c) - 1

IsDigit(c) == IndexOf(Digits, c) > 0

\* Lexicographic order of two digit strings of the same length.
RECURSIVE LexLess(_, _)
LexLess(s, u) ==
  IF s = <<>> THEN FALSE
  ELSE IF Head(s) # Head(u) THEN DigitValue(Head(s)) < DigitValue(Head(u))
  ELSE LexLess(Tail(s), Tail(u))

\* Numeric order of two canonical numeric strings.
IndexLess(s, u) ==
  Len(s) < Len(u) \/ (Len(s) = Len(u) /\ LexLess(s, u))

\* A canonical numeric string of an integer in 0 .. 2^32 - 2.
IsArrayIndex(s) ==
  /\ Len(s) > 0
  /\ \A i \in 1..Len(s) : IsDigit(s[i])
  /\ (Len(s) = 1 \/ s[1] # "0")
  /\ (s = MaxArrayIndexText \/ IndexLess(s, MaxArrayIndexText))

\* Insert the array-index key k into an ascending sequence of such keys.
RECURSIVE InsertIndexKey(_, _)
InsertIndexKey(sorted, k) ==
  IF sorted = <<>> THEN <<k>>
  ELSE IF IndexLess(k, Head(sorted)) THEN <<k>> \o sorted
  ELSE <<Head(sorted)>> \o InsertIndexKey(Tail(sorted), k)

RECURSIVE SortIndexKeys(_)
SortIndexKeys(keys) ==
  IF keys = <<>> THEN <<>>
  ELSE InsertIndexKey(SortIndexKeys(Tail(keys)), Head(keys))

\* keys: the distinct own keys of an object in insertion order.
OwnPropertyKeys(keys) ==
  SortIndexKeys(SelectSeq(keys, IsArrayIndex))
    \o SelectSeq(keys, LAMBDA k : ~IsArrayIndex(k))

\* Names every object inherits from Object.prototype (all of them truthy).
ObjectPrototypeMembers ==
  { <<"c", "o", "n", "s", "t", "r", "u", "c", "t", "o", "r">>,
    <<"t", "o", "S", "t", "r", "i", "n", "g">>,
    <<"v", "a", "l", "u", "e", "O", "f">> }

(***************************************************************************)
(* The decoded tile.  tile is the sequence of its layers in the order the  *)
(* decoder encountered them; the names are distinct.  A layer is           *)
(*   [name, version, extent, features],                                    *)
(* features the sequence of its features in wire order, and a feature the  *)
(* sequence of its [key, value] pairs in tag order, with distinct keys.    *)
(***************************************************************************)
PropKeys(props) == [i \in 1..Len(props) |-> props[i].key]

\* props[key] for a key the feature has.
PropValue(props, key) == props[IndexOf(PropKeys(props), key)].value

\* Object.entries(props)
ObjectEntries(props) ==
  LET keys == OwnPropertyKeys(PropKeys(props))
  IN [i \in 1..Len(keys) |-> [key |-> keys[i], value |-> PropValue(props, keys[i])]]

\* layer.length
LayerLength(layer) == Len(layer.features)

(***************************************************************************)
(* analyzeLayerAttributes.  The accumulator object `attributes` is the     *)
(* sequence of its own properties in insertion order; each accumulator is  *)
(* [key, types, count, values], types a Set and values a Map, both kept as *)
(* sequences in insertion order.                                           *)
(***************************************************************************)
AttrKeys(attributes) == [i \in 1..Len(attributes) |-> attributes[i].key]

HasOwn(attributes, key) == IndexOf(AttrKeys(attributes), key) > 0

\* attr.types.add(type)
SetAdd(types, type) ==
  IF type \in Range(types) THEN types ELSE Append(types, type)

MapKeys(values) == [i \in 1..Len(values) |-> values[i].value]

\* attr.values.get(valueStr) || 0
MapGetOrZero(values, str) ==
  LET i == IndexOf(MapKeys(values), str)
  IN IF i = 0 THEN 0 ELSE values[i].count

\* attr.values.set(valueStr, count): an existing entry keeps its place.
MapSet(values, str, count) ==
  LET i == IndexOf(MapKeys(values), str)
  IN IF i = 0 THEN Append(values, [value |-> str, count |-> count])
     ELSE [values EXCEPT ![i].count = count]

valueStr_typed(value) == getValueType(value) \o <<":">> \o StringOf(value)

\* const valueStr = String(value)
valueStr(value) == StringOf(value)

BumpValue_overwrite(values, str) == MapSet(values, str, 1)

\* attr.values.set(valueStr, (attr.values.get(valueStr) || 0) + 1)
BumpValue(values, str) == MapSet(values, str, MapGetOrZero(values, str) + 1)

\* attr.count++; attr.types.add(...); attr.values.set(...)
UpdateAttr(attr, value) ==
  [key |-> attr.key,
   types |-> SetAdd(attr.types, getValueType(value)),
   count |-> attr.count + 1,
   values |-> BumpValue(attr.values, valueStr(value))]

NewAttr(key) == [key |-> key, types |-> <<>>, count |-> 0, values |-> <<>>]

\* The body of the inner loop for one [key, value] entry.  st is
\* [attributes, thrown].  attributes[key] is the own accumulator when there
\* is one; otherwise, for a name inherited from Object.prototype, it is that
\* inherited member: it is truthy, so no accumulator is created, attr is the
\* inherited member, attr.types is undefined and attr.types.add throws a
\* TypeError.
Accumulate(st, key, value) ==
  IF st.thrown THEN st
  ELSE IF HasOwn(st.attributes, key)
    THEN LET i == IndexOf(AttrKeys(st.attributes), key)
         IN [st EXCEPT !.attributes[i] = UpdateAttr(st.attributes[i], value)]
  ELSE IF key \in ObjectPrototypeMembers
    THEN [st EXCEPT !.thrown = TRUE]
  ELSE [st EXCEPT !.attributes =
          Append(st.attributes, UpdateAttr(NewAttr(key), value))]

RECURSIVE AccumulateEntries(_, _)
AccumulateEntries(st, entries) ==
  IF entries = <<>> THEN st
  ELSE AccumulateEntries(
         Accumulate(st, Head(entries).key, Head(entries).value),
         Tail(entries))

\* The outer loop: features i = 0 .. featureCount - 1 in order.
RECURSIVE AccumulateFeatures(_, _)
AccumulateFeatures(st, features) ==
  IF features = <<>> THEN st
  ELSE AccumulateFeatures(
         AccumulateEntries(st, ObjectEntries(Head(features))),
         Tail(features))

\* Array.prototype.sort with (a, b) => b.count - a.count: a stable sort,
\* descending by count.
RECURSIVE InsertByCountDesc(_, _)
InsertByCountDesc(sorted, x) ==
  IF sorted = <<>> THEN <<x>>
  ELSE IF Head(sorted).count >= x.count
    THEN <<Head(sorted)>> \o InsertByCountDesc(Tail(sorted), x)
  ELSE <<x>> \o sorted

RECURSIVE StableSortByCountDesc(_)
StableSortByCountDesc(seq) ==
  IF seq = <<>> THEN <<>>
  ELSE InsertByCountDesc(
         StableSortByCountDesc(SubSeq(seq, 1, Len(seq) - 1)), seq[Len(seq)])

SortValues_unsorted(values) == values

\* Array.from(attr.values.entries()).sort((a, b) => b[1] - a[1])
SortValues(values) == StableSortByCountDesc(values)

\* .sort((a, b) => b.count - a.count)
SortAttributes(attrs) == StableSortByCountDesc(attrs)

\* Object.values(attributes)
ObjectValues(attributes) ==
  LET keys == OwnPropertyKeys(AttrKeys(attributes))
  IN [i \in 1..Len(keys) |-> attributes[IndexOf(AttrKeys(attributes), keys[i])]]

\* The attr => ({key, types, count, values}) mapping of the return statement.
AttrResult(attr) ==
  [key |-> attr.key,
   types |-> attr.types,
   count |-> attr.count,
   values |-> SortValues(attr.values)]

\* analyzeLayerAttributes(layer): [thrown, attrs]
analyzeLayerAttributes(layer) ==
  LET featureCount == LayerLength(layer)
      st == AccumulateFeatures([attributes |-> <<>>, thrown |-> FALSE],
                               SubSeq(layer.features, 1, featureCount))
      objvals == ObjectValues(st.attributes)
  IN IF st.thrown THEN [thrown |-> TRUE, attrs |-> <<>>]
     ELSE [thrown |-> FALSE,
           attrs |-> SortAttributes(
                       [i \in 1..Len(objvals) |-> AttrResult(objvals[i])])]

(***************************************************************************)
(* analyzeTile.  tile.layers and the returned `layers` are ordinary        *)
(* objects keyed by layer name, so both are enumerated in property order.  *)
(***************************************************************************)
LayerNamesOf(t) == [i \in 1..Len(t) |-> t[i].name]

\* Object.keys(tile.layers)
TileLayerKeys(t) == OwnPropertyKeys(LayerNamesOf(t))

\* tile.layers[layerName]
TileLayer(t, layerName) == t[IndexOf(LayerNamesOf(t), layerName)]

LayerInfo_defaultCount(layerName, layer) ==
  [name |-> layerName,
   featureCount |-> IF LayerLength(layer) = 0 THEN 1 ELSE LayerLength(layer),
   extent |-> layer.extent,
   version |-> layer.version,
   attributes |-> analyzeLayerAttributes(layer).attrs]

\* The object literal assigned to layers[layerName].
LayerInfo(layerName, layer) ==
  [name |-> layerName,
   featureCount |-> LayerLength(layer),
   extent |-> layer.extent,
   version |-> layer.version,
   attributes |-> analyzeLayerAttributes(layer).attrs]

analyzeTile_firstLayerOnly(t) ==
  LET names == TileLayerKeys(t)
  IN IF \E i \in 1..Len(names) : analyzeLayerAttributes(TileLayer(t, names[i])).thrown
       THEN [thrown |-> TRUE, layers |-> <<>>]
       ELSE [thrown |-> FALSE,
             layers |-> IF names = <<>> THEN <<>>
                        ELSE <<LayerInfo(names[1], TileLayer(t, names[1]))>>]

\* analyzeTile(tile): [thrown, layers]; layers is the returned object as the
\* sequence of its values in property order.
analyzeTile(t) ==
  LET names == TileLayerKeys(t)
      inserted == [i \in 1..Len(names) |-> LayerInfo(names[i], TileLayer(t, names[i]))]
      order == OwnPropertyKeys(names)
  IN IF \E i \in 1..Len(names) : analyzeLayerAttributes(TileLayer(t, names[i])).thrown
       THEN [thrown |-> TRUE, layers |-> <<>>]
       ELSE [thrown |-> FALSE,
             layers |-> [i \in 1..Len(order) |-> inserted[IndexOf(names, order[i])]]]

(***************************************************************************)
(* exporter.mjs: escapeCsvValue and generateCSV.                           *)
(***************************************************************************)
Min(a, b) == IF a < b THEN a ELSE b

\* Array.prototype.join
RECURSIVE Join(_, _)
Join(strs, sep) ==
  IF strs = <<>> THEN <<>>
  ELSE IF Len(strs) = 1 THEN strs[1]
  ELSE strs[1] \o sep \o Join(Tail(strs), sep)

\* values.slice(0, limit) for a limit >= 0
Slice(seq, limit) == SubSeq(seq, 1, Min(limit, Len(seq)))

\* str.replace(/"/g, '""')
DoubleQuotes(str) ==
  Concat([i \in 1..Len(str) |->
            IF str[i] = "\"" THEN <<"\"", "\"">> ELSE <<str[i]>>])

escapeCsvValue_noDoubling(str) == <<"\"">> \o str \o <<"\"">>

\* escapeCsvValue(value) for a string value
escapeCsvValue(str) == <<"\"">> \o DoubleQuotes(str) \o <<"\"">>

\* 'key,types,count,sample_values'
CsvHeader ==
  <<"k", "e", "y", ",", "t", "y", "p", "e", "s", ",", "c", "o", "u", "n", "t", ",",
    "s", "a", "m", "p", "l", "e", "_", "v", "a", "l", "u", "e", "s">>

CsvSampleValues_all(attr) ==
  Join([i \in 1..Len(attr.values) |-> attr.values[i].value], <<";">>)

\* attr.values.slice(0, CONFIG.MAX_SAMPLE_VALUES_CSV).map(v => String(v.value)).join(';')
CsvSampleValues(attr) ==
  LET top == Slice(attr.values, MAX_SAMPLE_VALUES_CSV)
  IN Join([i \in 1..Len(top) |-> top[i].value], <<";">>)

CsvLine_rawKey(attr) ==
  <<"\"">> \o attr.key \o <<"\"">> \o <<",">>
    \o escapeCsvValue(Join(attr.types, <<";">>)) \o <<",">>
    \o NumberToString(attr.count) \o <<",">>
    \o escapeCsvValue(CsvSampleValues(attr))

\* `${key},${types},${attr.count},${sampleValues}`
CsvLine(attr) ==
  escapeCsvValue(attr.key) \o <<",">>
    \o escapeCsvValue(Join(attr.types, <<";">>)) \o <<",">>
    \o NumberToString(attr.count) \o <<",">>
    \o escapeCsvValue(CsvSampleValues(attr))

\* generateCSV(layerName, layerInfo)
generateCSV(layerInfo) ==
  Join(<<CsvHeader>> \o [i \in 1..Len(layerInfo.attributes) |->
                           CsvLine(layerInfo.attributes[i])],
       <<"\n">>)

(***************************************************************************)
(* exporter.mjs: formatSampleValues, escapeMarkdown and generateMarkdown.   *)
(***************************************************************************)
formatSampleValues_alwaysSliced(values, limit, showAll) ==
  LET displayValues == Slice(values, limit)
  IN Join([i \in 1..Len(displayValues) |->
             displayValues[i].value \o <<" ", "(">>
               \o NumberToString(displayValues[i].count) \o <<")">>],
          <<",", " ">>)

\* formatSampleValues(values, limit, showAll)
formatSampleValues(values, limit, showAll) ==
  LET displayValues == IF showAll THEN values ELSE Slice(values, limit)
  IN Join([i \in 1..Len(displayValues) |->
             displayValues[i].value \o <<" ", "(">>
               \o NumberToString(displayValues[i].count) \o <<")">>],
          <<",", " ">>)

\* String(value).replace(/\|/g, '\\|').replace(/\n/g, ' ')
escapeMarkdown(str) ==
  Concat([i \in 1..Len(str) |->
            IF str[i] = "|" THEN <<"\\", "|">>
            ELSE IF str[i] = "\n" THEN <<" ">>
            ELSE <<str[i]>>])

MdLayerHeading == <<"#", " ", "L", "a", "y", "e", "r", ":", " ">>

MdFeatures == <<"-", " ", "*", "*", "F", "e", "a", "t", "u", "r", "e", "s", "*", "*",
    ":", " ">>

MdVersion == <<"-", " ", "*", "*", "V", "e", "r", "s", "i", "o", "n", "*", "*", ":",
    " ">>

MdExtent == <<"-", " ", "*", "*", "E", "x", "t", "e", "n", "t", "*", "*", ":", " ">>

MdAttributesHeading == <<"#", "#", " ", "A", "t", "t", "r", "i", "b", "u", "t", "e", "s", "\n",
    "\n">>

MdTableHeader == <<"|", " ", "K", "e", "y", " ", "|", " ", "T", "y", "p", "e", "s", " ",
    "|", " ", "C", "o", "u", "n", "t", " ", "|", " ", "S", "a", "m", "p",
    "l", "e", " ", "V", "a", "l", "u", "e", "s", " ", "|", "\n">>

MdTableRule == <<"|", "-", "-", "-", "-", "-", "|", "-", "-", "-", "-", "-", "-", "-",
    "|", "-", "-", "-", "-", "-", "-", "-", "|", "-", "-", "-", "-", "-",
    "-", "-", "-", "-", "-", "-", "-", "-", "-", "-", "|", "\n">>

\* `| ${key} | ${types} | ${attr.count} | ${samples} |\n`
MdRow(attr, sampleLimit, showAll) ==
  <<"|", " ">> \o escapeMarkdown(attr.key)
    \o <<" ", "|", " ">> \o escapeMarkdown(Join(attr.types, <<",", " ">>))
    \o <<" ", "|", " ">> \o NumberToString(attr.count)
    \o <<" ", "|", " ">>
    \o escapeMarkdown(formatSampleValues(attr.values, sampleLimit, showAll))
    \o <<" ", "|", "\n">>

\* generateMarkdown(layerName, layerInfo, sampleLimit, showAll)
generateMarkdown(layerName, layerInfo, sampleLimit, showAll) ==
  MdLayerHeading \o escapeMarkdown(layerName) \o <<"\n", "\n">>
    \o MdFeatures \o NumberToString(layerInfo.featureCount) \o <<"\n">>
    \o MdVersion \o NumberToString(layerInfo.version) \o <<"\n">>
    \o MdExtent \o NumberToString(layerInfo.extent) \o <<"\n", "\n">>
    \o MdAttributesHeading
    \o MdTableHeader
    \o MdTableRule
    \o Concat([i \in 1..Len(layerInfo.attributes) |->
                 MdRow(layerInfo.attributes[i], sampleLimit, showAll)])

(***************************************************************************)
(* The decoded tiles the model analyses.                                   *)
(***************************************************************************)
KeyA == <<"a">>
KeyB == <<"b">>
KeyDigit == <<"2">>
KeyConstructor == <<"c", "o", "n", "s", "t", "r", "u", "c", "t", "o", "r">>
KeySpecial == <<"\"", ",", "\n">>

KeyPool == {KeyA, KeyB, KeyDigit, KeyConstructor, KeySpecial}

StrTrue == <<"t", "r", "u", "e">>
StrSpecial == <<"\"", ";", "\n">>

ValuePool ==
  {JsNull, JsUndefined, JsBool(TRUE), JsBool(FALSE), JsNum(12),
   JsStr(StrTrue), JsStr(StrSpecial)}

\* The features with exactly k properties, keys distinct, in tag order.
RECURSIVE FeaturesOf(_, _, _)
FeaturesOf(keys, vals, k) ==
  IF k = 0 THEN {<<>>}
  ELSE UNION {
         {Append(f, [key |-> kk, value |-> v]) :
            kk \in keys \ Range(PropKeys(f)), v \in vals}
         : f \in FeaturesOf(keys, vals, k - 1)}

\* The feature sequences of exactly nf features with at most np properties
\* in total.
RECURSIVE FeatureSeqs(_, _, _, _)
FeatureSeqs(keys, vals, nf, np) ==
  IF nf = 0 THEN {<<>>}
  ELSE UNION {
         UNION {
           {<<f>> \o rest : rest \in FeatureSeqs(keys, vals, nf - 1, np - k)}
           : f \in FeaturesOf(keys, vals, k)}
         : k \in 0..np}

LayerBodies(keys, vals) ==
  UNION {FeatureSeqs(keys, vals, nf, MaxPairs) : nf \in 0..MaxFeatures}

LayerName == <<"r", "o", "a", "d", "s">>

\* One-layer tiles: many keys, many values, and both mixed.
SingleLayerTiles ==
  {<<[name |-> LayerName, version |-> 2, extent |-> 4096, features |-> fs]>> :
     fs \in LayerBodies(KeyPool, {JsNum(7)})
            \cup LayerBodies({KeyA}, ValuePool)
            \cup LayerBodies({KeyA, KeyDigit}, {JsBool(TRUE), JsStr(StrTrue)})}

LayerNamePool == {<<"a">>, <<"b">>, <<"7">>}

SmallLayers ==
  [name : LayerNamePool, version : {1, 2}, extent : {4096},
   features : {<<>>, << <<[key |-> KeyA, value |-> JsNum(7)]>> >>}]

\* Tiles of up to MaxLayers layers with distinct names.
RECURSIVE TilesOf(_)
TilesOf(n) ==
  IF n = 0 THEN {<<>>}
  ELSE UNION {
         {Append(t, l) : l \in {x \in SmallLayers : x.name \notin Range(LayerNamesOf(t))}}
         : t \in TilesOf(n - 1)}

MultiLayerTiles == UNION {TilesOf(n) : n \in 0..MaxLayers}

TileInputs == SingleLayerTiles \cup MultiLayerTiles

\* One-layer tiles whose single key takes n distinct values, the last of
\* them twice when `again` is set, for every n up to MaxHistogram.
LongLayerTiles ==
  {<<[name |-> LayerName, version |-> 2, extent |-> 4096,
      features |-> [i \in 1..(n + again) |->
                     <<[key |-> KeyA,
                        value |-> JsNum(IF i > n THEN n ELSE i)]>>]]>> :
     n \in 1..MaxHistogram, again \in {0, 1}}

CsvTileInputs == TileInputs \cup LongLayerTiles

KeyPipe == <<"p", "|", "q">>
KeyNewlines == <<"\n", "\n">>
KeyBackslashPipe == <<"\\", "|">>

MdKeyPool == {KeyPipe, KeyNewlines, KeyBackslashPipe}

MdValuePool == {JsNum(12), JsStr(<<"x", "|", "y">>), JsStr(<<"u", "\n", "v">>)}

\* One-layer tiles whose keys and values hold pipes, newlines, backslashes.
MarkdownTiles ==
  {<<[name |-> LayerName, version |-> 2, extent |-> 4096, features |-> fs]>> :
     fs \in LayerBodies(MdKeyPool, {JsNum(7)})
            \cup LayerBodies({KeyA}, MdValuePool)}

(***************************************************************************)
(* The state machine of the pipeline: a decoded tile is analysed, then a   *)
(* layer of the analysis is exported.  The application is not running.     *)
(***************************************************************************)
NoData == [present |-> FALSE, layers |-> <<>>]

NoStatus == [cls |-> "", text |-> [msg |-> "", detail |-> <<>>], hidden |-> FALSE]

NoMd == [layer |-> 0, limit |-> 0, showAll |-> FALSE, text |-> <<>>]

\* The sample count field as the page loads it (CONFIG.DEFAULT_SAMPLE_LIMIT).
DefaultSampleCount == <<"5">>

NoOptions == [limit |-> 0, showAll |-> FALSE]

\* The application as loaded: no fetch made, nothing rendered.
AppLoaded ==
  /\ calls = <<>>
  /\ currentData = NoData
  /\ rendered = NoData
  /\ btnDisabled = FALSE
  /\ status = NoStatus
  /\ timers = 0
  /\ sampleCountInput = DefaultSampleCount
  /\ showAllValues = FALSE
  /\ renderedOptions = NoOptions

Init ==
  /\ tile \in CsvTileInputs
  /\ pc = "ready"
  /\ analysis = <<>>
  /\ csvLayer = 0
  /\ csv = <<>>
  /\ md = NoMd
  /\ AppLoaded

\* analyzeTile(tile): the analysis is returned, or the TypeError propagates.
AnalyzeTile ==
  /\ pc = "ready"
  /\ LET r == analyzeTile(tile)
     IN /\ pc' = IF r.thrown THEN "failed" ELSE "analyzed"
        /\ analysis' = r.layers
  /\ UNCHANGED <<tile, csvLayer, csv, md>>
  /\ UNCHANGED appVars

\* downloadCSV(layerName, layerInfo) -> generateCSV for one analysed layer.
GenerateCSV ==
  /\ pc = "analyzed"
  /\ \E i \in 1..Len(analysis) :
       /\ csvLayer' = i
       /\ csv' = generateCSV(analysis[i])
  /\ UNCHANGED <<tile, pc, analysis, md>>
  /\ UNCHANGED appVars

Next == AnalyzeTile \/ GenerateCSV

Spec == Init /\ [][Next]_vars

(***************************************************************************)
(* The same pipeline with the Markdown export.                             *)
(***************************************************************************)
InitMd ==
  /\ tile \in MarkdownTiles
  /\ pc = "ready"
  /\ analysis = <<>>
  /\ csvLayer = 0
  /\ csv = <<>>
  /\ md = NoMd
  /\ AppLoaded

\* downloadMarkdown(layerName, layerInfo, sampleLimit, showAll) ->
\* generateMarkdown for one analysed layer.
GenerateMarkdown ==
  /\ pc = "analyzed"
  /\ \E i \in 1..Len(analysis), sampleLimit \in 0..MaxSampleLimit,
        showAll \in BOOLEAN :
       md' = [layer |-> i, limit |-> sampleLimit, showAll |-> showAll,
              text |-> generateMarkdown(analysis[i].name, analysis[i],
                                        sampleLimit, showAll)]
  /\ UNCHANGED <<tile, pc, analysis, csvLayer, csv>>
  /\ UNCHANGED appVars

NextMd == AnalyzeTile \/ GenerateMarkdown

SpecMd == InitMd /\ [][NextMd]_vars

(***************************************************************************)
(* The application (exporter.mjs 242-333): handleFetch invocations, the    *)
(* network, and the success timer.  calls[c] is the c-th invocation that   *)
(* went on to fetch:                                                       *)
(*   url       the trimmed URL                                             *)
(*   pc        "fetch" awaiting fetch(url), "body" awaiting                *)
(*             response.arrayBuffer(), "done" when handleFetch has ended   *)
(*   response  the response fetch(url) resolved with                       *)
(*   parsed, analyzed  whether parseTile / analyzeTile were called         *)
(*   returned  the value fetchAndAnalyzeTile resolved with                 *)
(*   error     the error it rejected with                                  *)
(* A step is one task of the event loop with the microtasks it queues.     *)
(***************************************************************************)
UrlA == <<"A">>
UrlB == <<"B">>
UrlMissing == <<"M">>
UrlDown == <<"D">>
UrlGarbage == <<"G">>
UrlConstructor == <<"C">>

Urls == {UrlA, UrlB, UrlMissing, UrlDown, UrlGarbage, UrlConstructor}

\* What the user may have typed into urlInput.
UrlInputs == Urls \cup {<<>>, <<" ">>, <<" ", "A", " ">>}

TileA ==
  <<[name |-> <<"a">>, version |-> 2, extent |-> 4096,
     features |-> << <<[key |-> KeyA, value |-> JsNum(7)]>> >>]>>

TileB ==
  <<[name |-> <<"b">>, version |-> 2, extent |-> 4096,
     features |-> << <<[key |-> KeyA, value |-> JsNum(7)],
                      [key |-> KeyB, value |-> JsBool(TRUE)]>>,
                    <<[key |-> KeyB, value |-> JsStr(StrTrue)]>> >>],
    [name |-> <<"c">>, version |-> 1, extent |-> 4096,
     features |-> << <<[key |-> KeyB, value |-> JsNull]>> >>]>>

TileConstructor ==
  <<[name |-> <<"a">>, version |-> 2, extent |-> 4096,
     features |-> << <<[key |-> KeyConstructor, value |-> JsNum(7)]>> >>]>>

TextOK == <<"O", "K">>
TextNotFound == <<"N", "o", "t", " ", "F", "o", "u", "n", "d">>

\* What the network answers for a URL: net "fail" when fetch rejects;
\* otherwise the status line and the body, body "tile" for bytes that decode
\* to `tile` and "garbage" for bytes the decoder throws on.
Site(net, code, text, body, t) ==
  [net |-> net, status |-> code, statusText |-> text, body |-> body, tile |-> t]

Server ==
  [u \in Urls |->
     CASE u = UrlA -> Site("ok", 200, TextOK, "tile", TileA)
       [] u = UrlB -> Site("ok", 200, TextOK, "tile", TileB)
       [] u = UrlMissing -> Site("ok", 404, TextNotFound, "tile", <<>>)
       [] u = UrlDown -> Site("fail", 0, <<>>, "tile", <<>>)
       [] u = UrlGarbage -> Site("ok", 200, TextOK, "garbage", <<>>)
       [] u = UrlConstructor -> Site("ok", 200, TextOK, "tile", TileConstructor)]

\* analyzeTile(parseTile(data)) for the bytes of each tile the server holds.
AnalysisOf == [t \in {Server[u].tile : u \in Urls} |-> analyzeTile(t)]

\* response.ok
ResponseOk(response) == response.status >= 200 /\ response.status <= 299

NoError == [kind |-> "none", message |-> <<>>]

\* The rejection of fetch(url) on a network failure.
NetworkError == [kind |-> "network", message |-> <<"F", "a", "i", "l", "e", "d", " ", "t", "o", " ", "f", "e", "t", "c", "h">>]

HttpErrorPrefix == <<"H", "T", "T", "P", " ", "e", "r", "r", "o", "r", ":", " ">>

HttpError_statusOnly(response) ==
  [kind |-> "http",
   message |-> HttpErrorPrefix \o NumberToString(response.status)]

\* new Error(`HTTP error: ${response.status} ${response.statusText}`)
HttpError(response) ==
  [kind |-> "http",
   message |-> HttpErrorPrefix \o NumberToString(response.status)
                 \o <<" ">> \o response.statusText]

\* The error the decoder throws on bytes it cannot read.
DecodeError == [kind |-> "decode", message |-> <<"d", "e", "c", "o", "d", "e", " ", "f", "a", "i", "l", "e", "d">>]

\* The TypeError of attr.types.add on an inherited member.
AnalysisError == [kind |-> "analysis", message |-> <<"a", "t", "t", "r", ".", "t", "y", "p", "e", "s", " ", "i", "s", " ", "u", "n", "d", "e", "f", "i", "n", "e", "d">>]

\* String.prototype.trim for strings whose only white space is the blank.
RECURSIVE Trim(_)
Trim(str) ==
  IF str = <<>> THEN <<>>
  ELSE IF Head(str) = " " THEN Trim(Tail(str))
  ELSE IF str[Len(str)] = " " THEN Trim(SubSeq(str, 1, Len(str) - 1))
  ELSE str

\* showStatus(statusDiv, message, type): style.display is left as it is.
showStatus(st, msg, detail, type) ==
  [cls |-> type, text |-> [msg |-> msg, detail |-> detail], hidden |-> st.hidden]

\* hideStatus(statusDiv)
hideStatus(st) == [cls |-> "", text |-> st.text, hidden |-> TRUE]

NewCall(url) ==
  [url |-> url, pc |-> "fetch", response |-> Site("none", 0, <<>>, "none", <<>>),
   parsed |-> FALSE, analyzed |-> FALSE, returned |-> NoData, error |-> NoError]

ResponseOf_shared(cs, c) ==
  LET have == {k \in 1..Len(cs) : cs[k].response.net # "none"}
  IN cs[CHOOSE k \in have : \A m \in have : m <= k].response

\* The `response` local of the c-th call of fetchTile.
ResponseOf(cs, c) == cs[c].response

FinallyDisabled_onlyOnSuccess(failed) == IF failed THEN btnDisabled ELSE FALSE

\* finally { elements.fetchBtn.disabled = false }
FinallyDisabled(failed) == FALSE

\* What the user may put into the sample count field.
SampleCountInputs == {<<"5">>, <<"0">>, <<"2", "x">>}

\* The digits the text starts with.
LeadingDigits(text) ==
  LET stops == {i \in 1..Len(text) : ~IsDigit(text[i])}
      stop == IF stops = {} THEN Len(text) + 1
              ELSE CHOOSE i \in stops : \A j \in stops : i <= j
  IN SubSeq(text, 1, stop - 1)

RECURSIVE DecimalValue(_)
DecimalValue(digits) ==
  IF digits = <<>> THEN 0
  ELSE 10 * DecimalValue(SubSeq(digits, 1, Len(digits) - 1))
         + DigitValue(digits[Len(digits)])

\* parseInt(text) for unsigned text without leading blanks: the value of the
\* leading digits, NaN when there are none.
ParseInt(text) ==
  [nan |-> LeadingDigits(text) = <<>>, n |-> DecimalValue(LeadingDigits(text))]

\* getSampleLimit(): parseInt(value) || 5, for NaN and for 0.
getSampleLimit(value) ==
  IF ParseInt(value).nan \/ ParseInt(value).n = 0 THEN 5 ELSE ParseInt(value).n

InitApp ==
  /\ tile = <<>>
  /\ pc = "off"
  /\ analysis = <<>>
  /\ csvLayer = 0
  /\ csv = <<>>
  /\ md = NoMd
  /\ AppLoaded

\* handleFetch() up to its first await.
HandleFetch(input) ==
  LET url == Trim(input)
  IN IF url = <<>>
       THEN /\ status' = showStatus(status, "ENTER_URL", <<>>, "error")
            /\ UNCHANGED <<calls, currentData, rendered, btnDisabled, timers,
                           sampleCountInput, showAllValues, renderedOptions>>
       ELSE /\ Len(calls) < MaxCalls
            /\ status' = showStatus(status, "FETCHING", <<>>, "loading")
            /\ btnDisabled' = TRUE
            /\ calls' = Append(calls, NewCall(url))
            /\ UNCHANGED <<currentData, rendered, timers,
                           sampleCountInput, showAllValues, renderedOptions>>

\* A click on fetchBtn; a disabled button dispatches no click.
ClickFetch ==
  /\ ~btnDisabled
  /\ \E input \in UrlInputs : HandleFetch(input)
  /\ UNCHANGED pipeVars

\* The Enter key in urlInput.
PressEnter ==
  /\ \E input \in UrlInputs : HandleFetch(input)
  /\ UNCHANGED pipeVars

\* The c-th invocation ends in catch and finally with the error err.
Fails(c, err, parsed, analyzed) ==
  /\ calls' = [calls EXCEPT ![c].pc = "done", ![c].error = err,
                            ![c].parsed = parsed, ![c].analyzed = analyzed]
  /\ status' = showStatus(status, "ERROR_PREFIX", err.message, "error")
  /\ btnDisabled' = FinallyDisabled(TRUE)
  /\ UNCHANGED <<currentData, rendered, timers,
                 sampleCountInput, showAllValues, renderedOptions>>

\* fetchAndAnalyzeTile resolved with data: currentData is assigned,
\* rendered, the success status shown and its hide timer set; then finally.
Succeeds(c, data) ==
  /\ calls' = [calls EXCEPT ![c].pc = "done", ![c].returned = data,
                            ![c].parsed = TRUE, ![c].analyzed = TRUE]
  /\ currentData' = data
  /\ rendered' = data
  /\ renderedOptions' = [limit |-> getSampleLimit(sampleCountInput),
                         showAll |-> showAllValues]
  /\ UNCHANGED <<sampleCountInput, showAllValues>>
  /\ status' = showStatus(status, "COMPLETE", <<>>, "success")
  /\ timers' = timers + 1
  /\ btnDisabled' = FinallyDisabled(FALSE)

\* fetch(url) settles: it rejects, or fetchTile gets the response, throws
\* when it is not ok and otherwise awaits response.arrayBuffer().
FetchSettles(c) ==
  /\ c \in 1..Len(calls)
  /\ calls[c].pc = "fetch"
  /\ LET site == Server[calls[c].url]
     IN IF site.net = "fail" THEN Fails(c, NetworkError, FALSE, FALSE)
        ELSE IF ~ResponseOk(site) THEN Fails(c, HttpError(site), FALSE, FALSE)
        ELSE /\ calls' = [calls EXCEPT ![c].pc = "body", ![c].response = site]
             /\ UNCHANGED <<currentData, rendered, btnDisabled, status, timers,
                            sampleCountInput, showAllValues, renderedOptions>>
  /\ UNCHANGED pipeVars

\* response.arrayBuffer() resolves: fetchTile returns the bytes,
\* fetchAndAnalyzeTile parses and analyses them, handleFetch goes on.
BodySettles(c) ==
  /\ c \in 1..Len(calls)
  /\ calls[c].pc = "body"
  /\ LET response == ResponseOf(calls, c)
     IN IF response.body = "garbage" THEN Fails(c, DecodeError, TRUE, FALSE)
        ELSE LET r == AnalysisOf[response.tile]
             IN IF r.thrown THEN Fails(c, AnalysisError, TRUE, TRUE)
                ELSE Succeeds(c, [present |-> TRUE, layers |-> r.layers])
  /\ UNCHANGED pipeVars

\* setTimeout(() => hideStatus(elements.statusDiv), 2000) comes due.
TimerFires ==
  /\ timers > 0
  /\ timers' = timers - 1
  /\ status' = hideStatus(status)
  /\ UNCHANGED <<calls, currentData, rendered, btnDisabled,
                 sampleCountInput, showAllValues, renderedOptions>>
  /\ UNCHANGED pipeVars

\* handleOptionsChange(), with the two fields as the change left them.
HandleOptionsChange(value, checked) ==
  /\ IF currentData.present
       THEN /\ rendered' = currentData
            /\ renderedOptions' = [limit |-> getSampleLimit(value), showAll |-> checked]
       ELSE UNCHANGED <<rendered, renderedOptions>>
  /\ UNCHANGED <<calls, currentData, btnDisabled, status, timers>>

\* A 'change' event of sampleCountInput.
ChangeSampleCount ==
  /\ \E value \in SampleCountInputs \ {sampleCountInput} :
       /\ sampleCountInput' = value
       /\ HandleOptionsChange(value, showAllValues)
  /\ UNCHANGED showAllValues
  /\ UNCHANGED pipeVars

\* A 'change' event of showAllValuesCheckbox.
ToggleShowAll ==
  /\ showAllValues' = ~showAllValues
  /\ HandleOptionsChange(sampleCountInput, ~showAllValues)
  /\ UNCHANGED sampleCountInput
  /\ UNCHANGED pipeVars

Settles == \E c \in 1..MaxCalls : FetchSettles(c) \/ BodySettles(c)

\* The application with the two option fields left as loaded.
NextApp == ClickFetch \/ PressEnter \/ Settles \/ TimerFires

SpecApp == InitApp /\ [][NextApp]_vars

\* Every fetch and every body read settles in the end.
SpecAppFair == SpecApp /\ WF_vars(Settles)

\* The application with the option fields in use.
NextUi == NextApp \/ ChangeSampleCount \/ ToggleShowAll

SpecUi == InitApp /\ [][NextUi]_vars

TypeOK ==
  /\ pc \in {"ready", "analyzed", "failed", "off"}
  /\ csvLayer \in 0..Len(analysis)

(***************************************************************************)
(* What the claims speak about, read off the decoded tile itself.          *)
(***************************************************************************)
\* The decoded layer an entry of the analysis was computed from.
InputLayer(info) == tile[IndexOf(LayerNamesOf(tile), info.name)]

HasKey(props, key) == key \in Range(PropKeys(props))

\* The features of the layer whose property mapping contains the key.
FeaturesWithKey(layer, key) ==
  {i \in 1..Len(layer.features) : HasKey(layer.features[i], key)}

\* Keys in first-observed order: features in wire order, pairs in tag order.
FirstObservedKeys(layer) ==
  Distinct(Concat([i \in 1..Len(layer.features) |-> PropKeys(layer.features[i])]))

\* The values of the key in wire order, one per feature that has the key.
RECURSIVE ValuesUnderKey(_, _)
ValuesUnderKey(features, key) ==
  IF features = <<>> THEN <<>>
  ELSE (IF HasKey(Head(features), key)
          THEN <<PropValue(Head(features), key)>> ELSE <<>>)
       \o ValuesUnderKey(Tail(features), key)

\* Value strings of the key in first-observed order.
FirstObservedStrings(layer, key) ==
  LET vs == ValuesUnderKey(layer.features, key)
  IN Distinct([i \in 1..Len(vs) |-> StringOf(vs[i])])

RECURSIVE SumCounts(_)
SumCounts(values) ==
  IF values = <<>> THEN 0 ELSE Head(values).count + SumCounts(Tail(values))

\* Every attribute of every analysed layer satisfies P(layer, attr).
ForAllAttrs(P(_, _)) ==
  \A li \in 1..Len(analysis) :
    \A ai \in 1..Len(analysis[li].attributes) :
      P(InputLayer(analysis[li]), analysis[li].attributes[ai])

ExistsAttr(P(_, _)) ==
  \E li \in 1..Len(analysis) :
    \E ai \in 1..Len(analysis[li].attributes) :
      P(InputLayer(analysis[li]), analysis[li].attributes[ai])

\* seq is ordered by count descending, equal counts by rank in `first`.
OrderedByCountThenRank(seq, Name(_), first) ==
  \A i, j \in 1..Len(seq) :
    i < j =>
      \/ seq[i].count > seq[j].count
      \/ /\ seq[i].count = seq[j].count
         /\ IndexOf(first, Name(seq[i])) < IndexOf(first, Name(seq[j]))

(***************************************************************************)
(* C1: for every attribute returned by analyzeLayerAttributes, the sum of  *)
(* its histogram counts equals its total count, and the total count equals *)
(* the number of features of the layer whose properties contain the key.   *)
(***************************************************************************)
C1_CountsAgree ==
  pc = "analyzed" =>
    ForAllAttrs(LAMBDA layer, attr :
      /\ SumCounts(attr.values) = attr.count
      /\ attr.count = Cardinality(FeaturesWithKey(layer, attr.key)))

\* A key present in two of three features, once with a repeated value.
C1_Witness ==
  /\ pc = "analyzed"
  /\ ExistsAttr(LAMBDA layer, attr :
       /\ Len(layer.features) = 3
       /\ attr.count = 2
       /\ Len(attr.values) = 1)

(***************************************************************************)
(* C2: analyzeLayerAttributes returns the attributes sorted by total count *)
(* descending, attributes of equal count in the order in which their keys  *)
(* were first observed, whatever the key strings are.                      *)
(***************************************************************************)
C2_AttributesByCountThenFirstObserved ==
  pc = "analyzed" =>
    \A li \in 1..Len(analysis) :
      OrderedByCountThenRank(analysis[li].attributes, LAMBDA a : a.key,
                             FirstObservedKeys(InputLayer(analysis[li])))

(***************************************************************************)
(* C3: the histogram of every returned attribute is sorted by count        *)
(* descending, value strings of equal count in the order in which they     *)
(* were first observed for that key.                                       *)
(***************************************************************************)
C3_HistogramByCountThenFirstObserved ==
  pc = "analyzed" =>
    ForAllAttrs(LAMBDA layer, attr :
      OrderedByCountThenRank(attr.values, LAMBDA e : e.value,
                             FirstObservedStrings(layer, attr.key)))

\* The value seen second occurs twice and so precedes the value seen first,
\* or two values seen once each follow a value seen twice.
C3_Witness ==
  /\ pc = "analyzed"
  /\ ExistsAttr(LAMBDA layer, attr :
       /\ Len(attr.values) = 2
       /\ attr.values[1].count = 2
       /\ attr.values[1].value = FirstObservedStrings(layer, attr.key)[2])

(***************************************************************************)
(* C4: analyzeLayerAttributes never throws on a validly decoded layer,     *)
(* whatever its key strings are.                                           *)
(***************************************************************************)
C4_NeverThrows == pc # "failed"

(***************************************************************************)
(* C5: the analysis returned by analyzeTile lists the layers in the order  *)
(* in which they were encountered in the decoded tile, whatever the layer  *)
(* names are.                                                              *)
(***************************************************************************)
C5_LayersInEncounterOrder ==
  pc = "analyzed" =>
    [i \in 1..Len(analysis) |-> analysis[i].name] = LayerNamesOf(tile)

(***************************************************************************)
(* C6: every value is counted under the bucket named by its canonical      *)
(* string: "null" for a value whose type tag is null, "true" or "false"    *)
(* for a boolean, the decimal text for a number, the text for a string.    *)
(***************************************************************************)
CanonicalString(value) ==
  LET tag == getValueType(value)
  IN IF tag = VALUE_TYPES_NULL THEN <<"n", "u", "l", "l">>
     ELSE IF tag = VALUE_TYPES_BOOLEAN
       THEN (IF value.b THEN <<"t", "r", "u", "e">> ELSE <<"f", "a", "l", "s", "e">>)
     ELSE IF tag = VALUE_TYPES_NUMBER THEN NumberToString(value.n)
     ELSE value.s

C6_CanonicalBuckets ==
  pc = "analyzed" =>
    ForAllAttrs(LAMBDA layer, attr :
      LET vs == ValuesUnderKey(layer.features, attr.key)
      IN \A i \in 1..Len(vs) :
           MapGetOrZero(attr.values, CanonicalString(vs[i]))
             = Cardinality({j \in 1..Len(vs) :
                              CanonicalString(vs[j]) = CanonicalString(vs[i])}))

(***************************************************************************)
(* C7: values of different types that stringify identically under one key  *)
(* are merged into a single bucket whose count is the sum of both, and the *)
(* type set of the attribute records each of the type tags observed.       *)
(***************************************************************************)
\* Two values of the key with the same string and different type tags.
MergedPair(vs, i, j) ==
  /\ StringOf(vs[i]) = StringOf(vs[j])
  /\ getValueType(vs[i]) # getValueType(vs[j])

C7_MergedBuckets ==
  pc = "analyzed" =>
    ForAllAttrs(LAMBDA layer, attr :
      LET vs == ValuesUnderKey(layer.features, attr.key)
      IN \A i, j \in 1..Len(vs) :
           MergedPair(vs, i, j) =>
             /\ Cardinality({b \in 1..Len(attr.values) :
                               attr.values[b].value = StringOf(vs[i])}) = 1
             /\ MapGetOrZero(attr.values, StringOf(vs[i]))
                  = Cardinality({m \in 1..Len(vs) : StringOf(vs[m]) = StringOf(vs[i])})
             /\ getValueType(vs[i]) \in Range(attr.types)
             /\ getValueType(vs[j]) \in Range(attr.types)
             /\ Len(attr.types) = Cardinality(Range(attr.types)))

\* Boolean true twice and the string "true" once under one key: one bucket
\* of count 3 and two type tags.
C7_Witness ==
  /\ pc = "analyzed"
  /\ ExistsAttr(LAMBDA layer, attr :
       LET vs == ValuesUnderKey(layer.features, attr.key)
       IN /\ \E i, j \in 1..Len(vs) : MergedPair(vs, i, j)
          /\ Len(attr.values) = 1
          /\ attr.values[1].count = 3
          /\ Len(attr.types) = 2)

(***************************************************************************)
(* C8: a layer with 0 features yields featureCount = 0 and an empty        *)
(* attribute list, and a tile with 0 layers yields an empty analysis.      *)
(***************************************************************************)
C8_EmptyLayerAndTile ==
  /\ pc = "analyzed" =>
       \A li \in 1..Len(analysis) :
         Len(InputLayer(analysis[li]).features) = 0 =>
           /\ analysis[li].featureCount = 0
           /\ analysis[li].attributes = <<>>
  /\ (tile = <<>> /\ pc # "ready") => (pc = "analyzed" /\ analysis = <<>>)
  /\ \A i \in 1..Len(tile) :
       (Len(tile[i].features) = 0 /\ pc = "analyzed") =>
         \E li \in 1..Len(analysis) : analysis[li].name = tile[i].name

\* A tile whose first layer has no features and whose second has one.
C8_Witness ==
  /\ pc = "analyzed"
  /\ Len(tile) = 2
  /\ Len(tile[1].features) = 0
  /\ Len(tile[2].features) = 1
  /\ \E li \in 1..Len(analysis) :
       analysis[li].name = tile[1].name /\ analysis[li].featureCount = 0

(***************************************************************************)
(* An RFC-4180 reader, with LF as the record separator.  A field is        *)
(*   [text, quoted, raw]                                                   *)
(* text its content, quoted whether it was enclosed in double quotes, raw  *)
(* the number of characters it occupies in the file.  The reader fails on  *)
(* an unterminated quoted field and on a closing quote followed by         *)
(* anything but a separator.                                               *)
(***************************************************************************)
\* Number of double quotes in text[from .. to].
QuotesIn(text, from, to) ==
  Cardinality({k \in from..to : text[k] = "\""})

\* The closing quote of the quoted field opened at position i: the first
\* quote after i that is not half of a doubled quote; 0 when there is none.
ClosingQuote(text, i) ==
  LET closing == {j \in (i + 1)..Len(text) :
                    /\ text[j] = "\""
                    /\ QuotesIn(text, i + 1, j) % 2 = 1
                    /\ (j = Len(text) \/ text[j + 1] # "\"")}
  IN IF closing = {} THEN 0
     ELSE CHOOSE j \in closing : \A m \in closing : j <= m

\* text[from .. to] with every doubled quote read as one quote.
Undoubled(text, from, to) ==
  LET kept == {k \in from..to :
                 ~(text[k] = "\"" /\ QuotesIn(text, from, k) % 2 = 0)}
      nth(m) == CHOOSE k \in kept : Cardinality({x \in kept : x <= k}) = m
  IN [m \in 1..Cardinality(kept) |-> text[nth(m)]]

\* The first separator at or after position i, Len(text) + 1 when none.
NextSeparator(text, i) ==
  LET seps == {j \in i..Len(text) : text[j] \in {",", "\n"}}
  IN IF seps = {} THEN Len(text) + 1
     ELSE CHOOSE j \in seps : \A m \in seps : j <= m

\* The field starting at position i: [ok, field, stop], stop the position of
\* the separator that ends it (Len(text) + 1 at the end of the file).
ReadField(text, i) ==
  IF i <= Len(text) /\ text[i] = "\""
    THEN LET j == ClosingQuote(text, i)
         IN IF j = 0 \/ (j < Len(text) /\ text[j + 1] \notin {",", "\n"})
              THEN [ok |-> FALSE, field |-> <<>>, stop |-> 0]
              ELSE [ok |-> TRUE,
                    field |-> [text |-> Undoubled(text, i + 1, j - 1),
                               quoted |-> TRUE, raw |-> j - i + 1],
                    stop |-> j + 1]
    ELSE LET j == NextSeparator(text, i)
         IN [ok |-> TRUE,
             field |-> [text |-> SubSeq(text, i, j - 1),
                        quoted |-> FALSE, raw |-> j - i],
             stop |-> j]

RECURSIVE CsvScan(_, _, _, _)
CsvScan(text, i, row, rows) ==
  LET f == ReadField(text, i)
  IN IF ~f.ok THEN [ok |-> FALSE, rows |-> rows]
     ELSE IF f.stop > Len(text)
       THEN [ok |-> TRUE, rows |-> Append(rows, Append(row, f.field))]
     ELSE IF text[f.stop] = ","
       THEN CsvScan(text, f.stop + 1, Append(row, f.field), rows)
     ELSE CsvScan(text, f.stop + 1, <<>>, Append(rows, Append(row, f.field)))

ParseCsv(text) == CsvScan(text, 1, <<>>, <<>>)

\* text split at every occurrence of the character sep.
RECURSIVE Split(_, _)
Split(text, sep) ==
  LET i == IndexOf(text, sep)
  IN IF i = 0 THEN <<text>>
     ELSE <<SubSeq(text, 1, i - 1)>> \o Split(SubSeq(text, i + 1, Len(text)), sep)

\* The number a string of decimal digits denotes, -1 for any other string.
RECURSIVE ParseDecimal(_)
ParseDecimal(text) ==
  IF text = <<>> \/ ~IsDigit(text[Len(text)]) THEN -1
  ELSE IF Len(text) = 1 THEN DigitValue(text[1])
  ELSE LET high == ParseDecimal(SubSeq(text, 1, Len(text) - 1))
       IN IF high < 0 THEN -1 ELSE 10 * high + DigitValue(text[Len(text)])

CountQuotes(text) == Cardinality({i \in 1..Len(text) : text[i] = "\""})

\* The field is enclosed in double quotes, holds exactly `content`, and
\* every double quote of the content is written twice.
QuotedAs(field, content) ==
  /\ field.quoted
  /\ field.text = content
  /\ field.raw = Len(content) + CountQuotes(content) + 2

\* The attributes of the exported layer.
ExportedAttrs == analysis[csvLayer].attributes

\* The file has the header row and one four-field row per attribute.
CsvRowsMatch(parsed) ==
  /\ parsed.ok
  /\ Len(parsed.rows) = Len(ExportedAttrs) + 1
  /\ \A r \in 2..Len(parsed.rows) : Len(parsed.rows[r]) = 4

(***************************************************************************)
(* C9: in the text produced by generateCSV every field of every data row   *)
(* (key, types, count, sample_values) is enclosed in double quotes, each   *)
(* embedded double quote is doubled, and embedded newlines are kept        *)
(* verbatim inside the quotes.                                             *)
(***************************************************************************)
C9_EveryFieldQuoted ==
  csvLayer > 0 =>
    LET parsed == ParseCsv(csv)
    IN /\ CsvRowsMatch(parsed)
       /\ \A a \in 1..Len(ExportedAttrs) :
            LET row == parsed.rows[a + 1]
                attr == ExportedAttrs[a]
            IN /\ QuotedAs(row[1], attr.key)
               /\ QuotedAs(row[2], Join(attr.types, <<";">>))
               /\ QuotedAs(row[3], NumberToString(attr.count))
               /\ QuotedAs(row[4], CsvSampleValues(attr))

(***************************************************************************)
(* C9 as amended: the key, types and sample_values fields of every data    *)
(* row are enclosed in double quotes, each embedded double quote doubled   *)
(* and embedded newlines kept verbatim inside the quotes; the count field  *)
(* is the bare decimal number, without quotes.                             *)
(***************************************************************************)
C9_TextFieldsQuotedCountBare ==
  csvLayer > 0 =>
    LET parsed == ParseCsv(csv)
    IN /\ CsvRowsMatch(parsed)
       /\ \A a \in 1..Len(ExportedAttrs) :
            LET row == parsed.rows[a + 1]
                attr == ExportedAttrs[a]
            IN /\ QuotedAs(row[1], attr.key)
               /\ QuotedAs(row[2], Join(attr.types, <<";">>))
               /\ ~row[3].quoted
               /\ row[3].text = NumberToString(attr.count)
               /\ QuotedAs(row[4], CsvSampleValues(attr))

\* An exported attribute whose key holds a double quote and a newline.
C9_Witness ==
  /\ csvLayer > 0
  /\ \E a \in 1..Len(ExportedAttrs) :
       /\ "\"" \in Range(ExportedAttrs[a].key)
       /\ "\n" \in Range(ExportedAttrs[a].key)

(***************************************************************************)
(* C10: an RFC-4180 reader recovers from the text of generateCSV one row   *)
(* per attribute, and from the row the same key, the same type set (the    *)
(* types field split on ';') and the same total count.                     *)
(***************************************************************************)
C10_CsvRoundTrip ==
  csvLayer > 0 =>
    LET parsed == ParseCsv(csv)
    IN /\ CsvRowsMatch(parsed)
       /\ \A a \in 1..Len(ExportedAttrs) :
            LET row == parsed.rows[a + 1]
                attr == ExportedAttrs[a]
            IN /\ row[1].text = attr.key
               /\ Range(Split(row[2].text, ";")) = Range(attr.types)
               /\ ParseDecimal(row[3].text) = attr.count

\* An export of two attributes, one with a quote in its key, or one whose
\* values hold quotes, semicolons and newlines and are of two types.
C10_Witness ==
  /\ csvLayer > 0
  /\ \E a \in 1..Len(ExportedAttrs) :
       /\ Len(ExportedAttrs[a].types) = 2
       /\ \E b \in 1..Len(ExportedAttrs[a].values) :
            {"\"", ";", "\n"} \subseteq Range(ExportedAttrs[a].values[b].value)

(***************************************************************************)
(* C11: in each generateCSV data row, sample_values is the first           *)
(* min(10, n) value strings of the histogram in histogram order, counts    *)
(* dropped, joined by ';'; the header row is exactly                       *)
(* key,types,count,sample_values.                                          *)
(***************************************************************************)
C11_SampleValuesAndHeader ==
  csvLayer > 0 =>
    LET parsed == ParseCsv(csv)
    IN /\ CsvRowsMatch(parsed)
       /\ [f \in 1..Len(parsed.rows[1]) |-> parsed.rows[1][f].text]
            = << <<"k", "e", "y">>, <<"t", "y", "p", "e", "s">>,
                 <<"c", "o", "u", "n", "t">>,
                 <<"s", "a", "m", "p", "l", "e", "_", "v", "a", "l", "u", "e", "s">> >>
       /\ \A f \in 1..Len(parsed.rows[1]) : ~parsed.rows[1][f].quoted
       /\ \A a \in 1..Len(ExportedAttrs) :
            LET values == ExportedAttrs[a].values
                m == IF Len(values) < 10 THEN Len(values) ELSE 10
            IN parsed.rows[a + 1][4].text
                 = Join([i \in 1..m |-> values[i].value], <<";">>)

\* An exported attribute with more than ten histogram entries, the first of
\* them counted twice.
C11_Witness ==
  /\ csvLayer > 0
  /\ \E a \in 1..Len(ExportedAttrs) :
       /\ Len(ExportedAttrs[a].values) > 10
       /\ ExportedAttrs[a].values[1].count = 2

(***************************************************************************)
(* Reading the Markdown text: its lines, and the cells of a table row as a *)
(* GitHub-flavoured Markdown reader splits them (a pipe preceded by an odd *)
(* number of backslashes is escaped, any other pipe delimits a cell).      *)
(***************************************************************************)
\* The k-th smallest element of the set of positions D.
PosN(D, k) == CHOOSE i \in D : Cardinality({j \in D : j <= i}) = k

\* The pieces of text between the delimiter positions D.
Pieces(text, D) ==
  [k \in 1..(Cardinality(D) + 1) |->
     SubSeq(text,
            IF k = 1 THEN 1 ELSE PosN(D, k - 1) + 1,
            IF k = Cardinality(D) + 1 THEN Len(text) ELSE PosN(D, k) - 1)]

TextLines(text) == Pieces(text, {i \in 1..Len(text) : text[i] = "\n"})

\* Number of consecutive backslashes that end just before position i.
BackslashRun(line, i) ==
  LET others == {j \in 1..(i - 1) : line[j] # "\\"}
      last == IF others = {} THEN 0
              ELSE CHOOSE j \in others : \A m \in others : m <= j
  IN (i - 1) - last

CellDelimiters(line) ==
  {i \in 1..Len(line) : line[i] = "|" /\ BackslashRun(line, i) % 2 = 0}

\* The attributes of the layer the Markdown was generated for.
MdAttrs == analysis[md.layer].attributes

\* The table row of the a-th attribute: ten lines precede the rows.
MdRowLine(a) == TextLines(md.text)[10 + a]

\* The Markdown has one line per attribute after its ten leading lines.
MdOneLinePerRow == Len(TextLines(md.text)) = Len(MdAttrs) + 11

(***************************************************************************)
(* C12: in the table of generateMarkdown every cell value has each '|'     *)
(* replaced by '\|' and each run of embedded newlines collapsed to a       *)
(* single space, so that every table row is exactly one line with exactly  *)
(* four cells.                                                             *)
(***************************************************************************)
\* The cell text the claim describes.
PipesEscapedRunsCollapsed(str) ==
  Concat([i \in 1..Len(str) |->
            IF str[i] = "|" THEN <<"\\", "|">>
            ELSE IF str[i] = "\n"
              THEN (IF i > 1 /\ str[i - 1] = "\n" THEN <<>> ELSE <<" ">>)
            ELSE <<str[i]>>])

Padded(str) == <<" ">> \o str \o <<" ">>

C12_CellsEscapedFourPerRow ==
  md.layer > 0 =>
    /\ MdOneLinePerRow
    /\ \A a \in 1..Len(MdAttrs) :
         LET line == MdRowLine(a)
             attr == MdAttrs[a]
             cells == Pieces(line, CellDelimiters(line))
         IN /\ Cardinality(CellDelimiters(line)) = 5
            /\ {1, Len(line)} \subseteq CellDelimiters(line)
            /\ cells[2] = Padded(PipesEscapedRunsCollapsed(attr.key))
            /\ cells[3] = Padded(PipesEscapedRunsCollapsed(
                                   Join(attr.types, <<",", " ">>)))
            /\ cells[4] = Padded(NumberToString(attr.count))
            /\ cells[5] = Padded(PipesEscapedRunsCollapsed(
                                   formatSampleValues(attr.values, md.limit,
                                                      md.showAll)))

(***************************************************************************)
(* C13: the sample-values cell of generateMarkdown lists 'value (count)'   *)
(* pairs joined by ', ' in histogram order: the full histogram when        *)
(* showAll is set, otherwise exactly the first min(sampleLimit, n) entries *)
(* for every non-negative integer sampleLimit.  The cell is written with   *)
(* the table escaping of escapeMarkdown.                                   *)
(***************************************************************************)
ListedPairs(values, m) ==
  Join([i \in 1..m |->
          values[i].value \o <<" ", "(">> \o NumberToString(values[i].count)
            \o <<")">>],
       <<",", " ">>)

EndsWith(text, suffix) ==
  /\ Len(text) >= Len(suffix)
  /\ SubSeq(text, Len(text) - Len(suffix) + 1, Len(text)) = suffix

C13_SampleCellListsFirstEntries ==
  md.layer > 0 =>
    /\ MdOneLinePerRow
    /\ \A a \in 1..Len(MdAttrs) :
         LET values == MdAttrs[a].values
             n == Len(values)
             m == IF md.showAll THEN n
                  ELSE IF md.limit < n THEN md.limit ELSE n
         IN EndsWith(MdRowLine(a),
                     <<" ", "|", " ">>
                       \o escapeMarkdown(ListedPairs(values, m))
                       \o <<" ", "|">>)

\* showAll with a limit below the three histogram entries of an attribute.
C13_Witness ==
  /\ md.layer > 0
  /\ md.showAll
  /\ md.limit = 1
  /\ \E a \in 1..Len(MdAttrs) : Len(MdAttrs[a].values) = 3

(***************************************************************************)
(* Claims about fetchAndAnalyzeTile and handleFetch, under SpecApp.        *)
(***************************************************************************)
Started(c) == c \in 1..Len(calls)

InFlight(c) == Started(c) /\ calls[c].pc # "done"

Done(c) == Started(c) /\ calls[c].pc = "done"

FetchFails(site) == site.net = "fail" \/ site.status < 200 \/ site.status > 299

\* The message reads "HTTP error: ", the status in decimal, a blank and the
\* status text.
CarriesStatus(message, site) ==
  /\ Len(message) >= 16
  /\ SubSeq(message, 1, 12) = HttpErrorPrefix
  /\ ParseDecimal(SubSeq(message, 13, 15)) = site.status
  /\ message[16] = " "
  /\ SubSeq(message, 17, Len(message)) = site.statusText

\* C14: a call whose response status is outside 200..299 ends with an error
\* whose message carries the status and the status text, a call whose fetch
\* is rejected ends with an error, in both cases nothing is decoded or
\* analysed and nothing is returned; every finished call has either a result
\* or an error, never both and never neither.
C14_FailedFetchNoDecodeNoResult ==
  \A c \in 1..Len(calls) :
    LET call == calls[c]
        site == Server[call.url]
    IN /\ FetchFails(site) =>
            /\ ~call.parsed
            /\ ~call.analyzed
            /\ ~call.returned.present
            /\ call.pc # "body"
            /\ call.pc = "done" =>
                 /\ call.error.kind # "none"
                 /\ site.net = "ok" => CarriesStatus(call.error.message, site)
       /\ call.pc = "done" => (call.returned.present <=> call.error.kind = "none")
       /\ call.pc # "done" => (~call.returned.present /\ call.error.kind = "none")

C14_Witness ==
  /\ Len(calls) = 2
  /\ \E c \in 1..2 : calls[c].url = UrlMissing /\ calls[c].pc = "done"
  /\ \E c \in 1..2 : calls[c].url = UrlDown /\ calls[c].pc = "done"

\* The layers of the analysis are those of the tile, each with the count of
\* all its features and, for every key of the layer, the count of the
\* features that have it and a histogram adding up to that count.
CompleteAnalysis(layers, t) ==
  /\ Len(layers) = Len(t)
  /\ {layers[i].name : i \in 1..Len(layers)} = Range(LayerNamesOf(t))
  /\ \A i \in 1..Len(layers) :
       LET layer == t[IndexOf(LayerNamesOf(t), layers[i].name)]
           attrs == layers[i].attributes
       IN /\ layers[i].featureCount = Len(layer.features)
          /\ Len(attrs) = Len(FirstObservedKeys(layer))
          /\ {attrs[a].key : a \in 1..Len(attrs)} = Range(FirstObservedKeys(layer))
          /\ \A a \in 1..Len(attrs) :
               /\ attrs[a].count = Cardinality(FeaturesWithKey(layer, attrs[a].key))
               /\ SumCounts(attrs[a].values) = attrs[a].count

\* Absent, or the complete analysis of the tile of one call.
AtomicView(data) ==
  \/ data = NoData
  \/ /\ data.present
     /\ \E c \in 1..Len(calls) :
          /\ Server[calls[c].url].body = "tile"
          /\ CompleteAnalysis(data.layers, Server[calls[c].url].tile)

\* C15: in every state the value each call returned, currentData and the
\* rendered results are each absent or the complete analysis of one whole
\* tile, every layer present and fully aggregated.
C15_AnalysisObservedAtomically ==
  /\ AtomicView(currentData)
  /\ AtomicView(rendered)
  /\ \A c \in 1..Len(calls) : AtomicView(calls[c].returned)

C15_Witness ==
  /\ currentData.present
  /\ Len(currentData.layers) = 2
  /\ rendered = currentData
  /\ \E c \in 1..Len(calls) : calls[c].pc = "body"

\* C16: for any interleaving of the calls, a call that returns returns the
\* analysis of the tile at its own URL, the one it returns when run alone.
C16_CallsIndependent ==
  \A c \in 1..Len(calls) :
    calls[c].returned.present =>
      /\ Server[calls[c].url].body = "tile"
      /\ calls[c].returned.layers = analyzeTile(Server[calls[c].url].tile).layers

C16_Witness ==
  /\ Len(calls) = 2
  /\ calls[1].url = UrlA
  /\ calls[2].url = UrlB
  /\ calls[1].returned.present
  /\ calls[2].returned.present
  /\ currentData = calls[1].returned

\* C18: once every started invocation has completed with a result,
\* currentData and the rendered results are those of the invocation that
\* was started last.
C18_LastStartedWins ==
  (calls # <<>> /\ \A c \in 1..Len(calls) : Done(c) /\ calls[c].returned.present) =>
    /\ currentData = calls[Len(calls)].returned
    /\ rendered = calls[Len(calls)].returned

\* C19: while any invocation is awaiting its fetch or its body the fetch
\* button is disabled.
C19_DisabledWhileAwaiting ==
  (\E c \in 1..Len(calls) : InFlight(c)) => btnDisabled

\* C20: every invocation that disabled the button comes to its end with the
\* button enabled, whatever the fetch, the decoding or the analysis did, and
\* in every state with no invocation in flight the button is enabled.
C20_ButtonReenabled ==
  /\ \A c \in 1..MaxCalls : InFlight(c) ~> (Done(c) /\ ~btnDisabled)
  /\ []((\A c \in 1..Len(calls) : Done(c)) => ~btnDisabled)

C20_Witness ==
  /\ Len(calls) = 2
  /\ \A c \in 1..2 : Done(c)
  /\ {calls[1].error.kind, calls[2].error.kind} = {"decode", "analysis"}
  /\ ~btnDisabled

\* C21: a step in which a hide timer comes due finds the success message in
\* statusDiv; it never clears a loading or an error status that a later
\* invocation has put there.
C21_TimerHidesOnlySuccess ==
  [][timers' < timers => status.cls = "success"]_vars

(***************************************************************************)
(* Claims about the option fields and the status, under SpecUi.            *)
(***************************************************************************)
\* The step in which the c-th invocation ends in its catch block.
FailureStep(c) ==
  /\ InFlight(c)
  /\ calls'[c].pc = "done"
  /\ calls'[c].error.kind # "none"

\* The step of a handleFetch that puts up the enter-a-URL message.
EmptyUrlStep ==
  /\ status' # status
  /\ status'.cls = "error"
  /\ status'.text.msg = "ENTER_URL"

\* A 'change' event of one of the two option fields.
OptionStep == sampleCountInput' # sampleCountInput \/ showAllValues' # showAllValues

\* A failing invocation leaves currentData and the rendered results alone.
FailureKeepsData ==
  \A c \in 1..Len(calls) :
    FailureStep(c) =>
      /\ currentData' = currentData
      /\ rendered' = rendered
      /\ renderedOptions' = renderedOptions

\* A failing invocation leaves its error message on display in statusDiv.
FailureShowsError ==
  \A c \in 1..Len(calls) :
    FailureStep(c) =>
      /\ status'.cls = "error"
      /\ status'.text = [msg |-> "ERROR_PREFIX", detail |-> calls'[c].error.message]
      /\ ~status'.hidden

\* An option change renders currentData again, with the options as changed.
OptionChangeRerenders ==
  OptionStep =>
    /\ currentData' = currentData
    /\ IF currentData.present
         THEN /\ rendered' = currentData
              /\ renderedOptions'.showAll = showAllValues'
              /\ renderedOptions'.limit \in {5, DecimalValue(LeadingDigits(sampleCountInput'))}
              /\ renderedOptions'.limit > 0
         ELSE rendered' = rendered

\* An empty or blank URL starts no fetch and leaves data and button alone.
EmptyUrlDoesNothing ==
  EmptyUrlStep =>
    /\ calls' = calls
    /\ currentData' = currentData
    /\ rendered' = rendered
    /\ btnDisabled' = btnDisabled

\* The parts of C22 about currentData, the rendered results and the button.
C22_DataAndButtonKept ==
  [][FailureKeepsData /\ OptionChangeRerenders /\ EmptyUrlDoesNothing]_vars

\* C22: when the fetch or the analysis throws, currentData and the rendered
\* results stay as they were, a later option change renders that currentData
\* again, and the status shows the error message; an empty or blank URL
\* starts no fetch and changes neither currentData nor the button.
C22_FailureKeepsDataShowsError ==
  [][/\ FailureKeepsData
     /\ FailureShowsError
     /\ OptionChangeRerenders
     /\ EmptyUrlDoesNothing]_vars

====
